---- MODULE Spec2Model ----
(***************************************************************************)
(* Model of the christmas-tree application: the App orchestrator          *)
(* (treeState, photos, mousePos), the Interface gesture path (toggleCamera,*)
(* runHandpose, detect) and the Polaroid photo layout of TreeSystem.       *)
(*                                                                         *)
(* Numbers.  JavaScript numbers are modelled as exact rationals <<n, d>>   *)
(* in lowest terms with d > 0; the two IEEE values a division by zero can  *)
(* produce are <<1, 0>> (Infinity) and <<0, 0>> (NaN).  All inputs are     *)
(* small integers, so no comparison of the model is within rounding        *)
(* distance of a threshold.                                                *)
(***************************************************************************)
EXTENDS Integers, Sequences, FiniteSets, TLC

(* ------------------------------ bounds --------------------------------- *)

\* Pending timers + model loads + detect chains the model lets coexist.
MaxChains == 2
\* Photos the model lets the user upload in total.
MaxPhotos == 3
\* Viewport and video frame sizes (environment values, not program constants).
innerWidth == 100
innerHeight == 50
videoWidth == 64
videoHeight == 48
\* Particles of each group the model follows.
MaxParticles == 2
\* Render frames the model lets pass.
MaxFrames == 2
\* Calls of audio.play() the model lets be pending together.
MaxPlays == 1

(* ----------------------------- rationals ------------------------------- *)

Abs(n) == IF n < 0 THEN -n ELSE n

RECURSIVE GCD(_, _)
GCD(a, b) == IF b = 0 THEN a ELSE GCD(b, a % b)

\* n/d in lowest terms, d # 0.
Rat(n, d) ==
    LET g == GCD(Abs(n), Abs(d))
        s == IF d < 0 THEN -1 ELSE 1
    IN  <<(s * n) \div g, (s * d) \div g>>

RInt(n) == <<n, 1>>
RAdd(p, q) == Rat(p[1] * q[2] + q[1] * p[2], p[2] * q[2])
RSub(p, q) == Rat(p[1] * q[2] - q[1] * p[2], p[2] * q[2])
RMul(p, q) == Rat(p[1] * q[1], p[2] * q[2])
RLt(p, q) == p[1] * q[2] < q[1] * p[2]
RLe(p, q) == p[1] * q[2] <= q[1] * p[2]

Infinity == <<1, 0>>
NaN == <<0, 0>>
IsFinite(x) == x[2] # 0

\* JavaScript a / b for a finite a and a finite b >= 0 that are not a < 0
\* with b = 0.
FDiv(a, b) ==
    IF b[1] = 0
    THEN IF a[1] = 0 THEN NaN ELSE Infinity
    ELSE Rat(a[1] * b[2], a[2] * b[1])

\* JavaScript x > t and x < t for a finite t: false for NaN.
FGt(x, t) == IF IsFinite(x) THEN RLt(t, x) ELSE x = Infinity
FLt(x, t) == IsFinite(x) /\ RLt(x, t)

\* Math.sqrt on the perfect squares the landmark samples produce.
Sqrt(n) == CHOOSE r \in 0..n : r * r = n

(* ------------------------------- state --------------------------------- *)

VARIABLES
    treeState,    \* App: useState<TreeState>
    mousePos,     \* App: useState({x, y}), a pair of rationals
    photos,       \* App: useState<PhotoData[]>, a sequence of [id, url]
    polaroids,    \* TreeSystem: one Polaroid per photo: its useMemo cells and mesh
    ribbon,       \* GoldRibbons: the five arrays of its useMemo
    dust,         \* GreenDust: the five arrays of its useMemo
    starScale,    \* TopStar: meshRef.current.scale
    rotationY,    \* TreeSystem: groupRef.current.rotation.y
    frame,        \* render frames so far
    audioRef,     \* Interface: audioRef.current # null
    isPlaying,    \* Interface: useState(false)
    isLoadingMusic, \* Interface: useState(false)
    plays,        \* pending audio.play() promises, by the call that made them
    showCamera,   \* Interface: useState(false)
    modelRef,     \* Interface: modelRef.current # null
    debugRatio,   \* Interface: useState<number>(0)
    requestRef,   \* Interface: requestRef.current, see RequestRefValues
    frameSeq,     \* the number of frames detect has requested, modulo 2
    orphanRafs,   \* pending detect frames whose id requestRef no longer holds
    estimating,   \* detect invocations awaiting net.estimateHands
    timers,       \* pending setTimeout(runHandpose, 1000) callbacks
    loading,      \* runHandpose invocations awaiting handpose.load()
    event,        \* history: the operation of the last step and what it emitted
    lastWrite,    \* history: the last call of handleInteraction
    prevWrite     \* history: the call of handleInteraction before it

appVars == <<treeState, mousePos>>
photoVars == <<photos, polaroids>>
camVars == <<showCamera, modelRef, debugRatio, requestRef, frameSeq,
             orphanRafs, estimating, timers, loading>>
sceneVars == <<ribbon, dust, starScale, rotationY, frame>>
musicVars == <<audioRef, isPlaying, isLoadingMusic, plays>>
vars == <<treeState, mousePos, photos, polaroids, showCamera, modelRef,
          debugRatio, requestRef, frameSeq, orphanRafs, estimating, timers,
          loading, ribbon, dust, starScale, rotationY, frame, audioRef,
          isPlaying, isLoadingMusic, plays, event, lastWrite, prevWrite>>

FORMED == "FORMED"
CHAOS == "CHAOS"
TreeState == {FORMED, CHAOS}

\* requestRef.current is 0 until the first requestAnimationFrame; afterwards it
\* holds the id of the last frame requested, which is either still pending or
\* has already run or been cancelled.  The ids themselves grow without bound;
\* only this distinction is observable (cancelAnimationFrame of an id that is
\* not pending does nothing).  frameSeq keeps the one thing about the ids that
\* the model still needs: every request returns another id than the last.
RequestRefValues == {"zero", "pending", "stale"}


NoWrite == [by |-> "none", val |-> "none"]
NoEvent == [op |-> "init", emit |-> "none"]

(* --------------------------- App (part_000) ---------------------------- *)

\* handleMouseMove: the pointer position of a mousemove event at client
\* coordinates e = <<clientX, clientY>> (rationals).
handleMouseMove(e) ==
    <<FDiv(e[1], RInt(innerWidth)), FDiv(e[2], RInt(innerHeight))>>

\* A latch: CHAOS, once set, is kept until the next release of a fresh press.
handleInteractionLatched(isInteracting) ==
    IF isInteracting \/ treeState = CHAOS THEN CHAOS ELSE FORMED

\* handleInteraction: the value setTreeState receives.
handleInteraction(isInteracting) ==
    IF isInteracting THEN CHAOS ELSE FORMED

\* The write a call onManualInteract(isInteracting) asks for, as logged.
WriteOf(who, isInteracting) ==
    [by |-> who, val |-> IF isInteracting THEN "CHAOS" ELSE "FORMED"]

(* ------------------------ Interface (part_001) ------------------------- *)

\* A hand with its wrist at w, its middle-finger knuckle at w + m and the
\* tip of that finger at w + t: landmarks 0, 9 and 12 of hand[0].landmarks.
Hand(w, m, t) ==
    <<(0 :> w) @@ (9 :> <<w[1] + m[1], w[2] + m[2]>>)
               @@ (12 :> <<w[1] + t[1], w[2] + t[2]>>)>>

\* The results net.estimateHands can resolve with: no hand, or one hand whose
\* tip/knuckle distance ratio is 1.6, 1.5, 1.45, 1.4, 1.35 or 1.2.
NoHand == << >>
HandResults ==
    { Hand(<<48, 12>>, <<12, 16>>, <<0, 32>>),
      Hand(<<16, 12>>, <<12, 16>>, <<24, 18>>),
      Hand(<<16, 12>>, <<12, 16>>, <<0, 29>>),
      Hand(<<16, 12>>, <<12, 16>>, <<0, 28>>),
      Hand(<<16, 12>>, <<12, 16>>, <<0, 27>>),
      Hand(<<16, 12>>, <<12, 16>>, <<0, 24>>) }
EstimateResults == {NoHand} \cup HandResults

\* Results with degenerate landmarks: the knuckle on the wrist, and the knuckle
\* and the tip both on the wrist.
InvalidHands ==
    { Hand(<<16, 12>>, <<0, 0>>, <<0, 24>>),
      Hand(<<16, 12>>, <<0, 0>>, <<0, 0>>) }

\* Results of a hand partly outside the picture: the detector extrapolates the
\* landmarks it does not see, so a wrist can lie left of, right of or below
\* the video frame.
OffFrameHands ==
    { Hand(<<-8, 12>>, <<12, 16>>, <<0, 28>>),
      Hand(<<80, 12>>, <<12, 16>>, <<0, 28>>),
      Hand(<<16, 60>>, <<12, -16>>, <<0, -28>>) }

\* An open hand (ratio 1.6) and a fist (ratio 1.2) inside the picture.
PlainHands ==
    { Hand(<<48, 12>>, <<12, 16>>, <<0, 32>>),
      Hand(<<16, 12>>, <<12, 16>>, <<0, 24>>) }

\* Lines 162-170: the client coordinates of the synthetic mousemove event.
WristEvent(landmarks) ==
    LET x == landmarks[0][1]
        y == landmarks[0][2]
        normX == RSub(RInt(1), FDiv(RInt(x), RInt(videoWidth)))
        normY == FDiv(RInt(y), RInt(videoHeight))
    IN  <<RMul(normX, RInt(innerWidth)), RMul(normY, RInt(innerHeight))>>

\* Lines 174-182: distToTip / distToMcp.
Ratio(landmarks) ==
    LET wrist == landmarks[0]
        tip == landmarks[12]
        mcp == landmarks[9]
        sq(a) == a * a
        distToTip == Sqrt(sq(tip[1] - wrist[1]) + sq(tip[2] - wrist[2]))
        distToMcp == Sqrt(sq(mcp[1] - wrist[1]) + sq(mcp[2] - wrist[2]))
    IN  FDiv(RInt(distToTip), RInt(distToMcp))

\* The thresholds of the comment above the test ("> 1.5", "< 1.3") with the
\* upper one made inclusive.
GestureCallsInclusive(ratio) ==
    IF ~ FLt(ratio, Rat(3, 2)) THEN <<TRUE>>
    ELSE IF FLt(ratio, Rat(13, 10)) THEN <<FALSE>>
    ELSE << >>

\* Lines 189-193: the calls of onManualInteract a ratio causes, in order.
GestureCalls(ratio) ==
    IF FGt(ratio, Rat(3, 2)) THEN <<TRUE>>
    ELSE IF FLt(ratio, Rat(27, 20)) THEN <<FALSE>>
    ELSE << >>

\* A sample without a hand read as a closed fist.
DetectCallsFistDefault(hand) ==
    IF Len(hand) > 0 THEN GestureCalls(Ratio(hand[1])) ELSE <<FALSE>>

\* Lines 158-194: the calls of onManualInteract one estimateHands result causes.
DetectCalls(hand) ==
    IF Len(hand) > 0 THEN GestureCalls(Ratio(hand[1])) ELSE << >>

\* Line 196: requestRef.current = requestAnimationFrame(...), from a state in
\* which requestRef is ref and orph frames are orphaned.
ScheduleFrame(ref, orph) ==
    /\ requestRef' = "pending"
    /\ frameSeq' = 1 - frameSeq
    /\ orphanRafs' = orph + (IF ref = "pending" THEN 1 ELSE 0)

\* Lines 143-148: webcamRef.current is null while the Webcam is unmounted
\* (showCamera false); mounted, its video is ready (readyState 4) or not.
VideoReadyValues == IF showCamera THEN BOOLEAN ELSE {FALSE}

\* detect(net) up to its first await (lines 143-156), or to its end when the
\* video is not ready (line 196).
DetectStart(ready, ref, orph) ==
    IF ready
    THEN /\ estimating' = estimating + 1
         /\ requestRef' = ref
         /\ frameSeq' = frameSeq
         /\ orphanRafs' = orph
    ELSE /\ estimating' = estimating
         /\ ScheduleFrame(ref, orph)

Chains == timers + loading + estimating + orphanRafs
              + (IF requestRef = "pending" THEN 1 ELSE 0)

\* toggleCamera with the tree released when the gestures are disabled.
toggleCameraReleasing ==
    /\ showCamera \/ Chains < MaxChains
    /\ showCamera' = ~ showCamera
    /\ IF ~ showCamera
       THEN /\ timers' = timers + 1
            /\ requestRef' = requestRef
            /\ treeState' = treeState
       ELSE /\ timers' = timers
            /\ requestRef' = IF requestRef = "pending" THEN "stale" ELSE requestRef
            /\ treeState' = FORMED
    /\ event' = [op |-> "toggleCamera", emit |-> "none"]
    /\ UNCHANGED <<sceneVars, musicVars, mousePos, photoVars, modelRef,
                   debugRatio, frameSeq, orphanRafs, estimating, loading,
                   lastWrite, prevWrite>>

\* toggleCamera (lines 199-209).
toggleCamera ==
    /\ showCamera \/ Chains < MaxChains
    /\ showCamera' = ~ showCamera
    /\ IF ~ showCamera
       THEN /\ timers' = timers + 1
            /\ requestRef' = requestRef
       ELSE /\ timers' = timers
            /\ requestRef' = IF requestRef = "pending" THEN "stale" ELSE requestRef
    /\ event' = [op |-> "toggleCamera", emit |-> "none"]
    /\ UNCHANGED <<sceneVars, musicVars, appVars, photoVars, modelRef, debugRatio, frameSeq,
                   orphanRafs, estimating, loading, lastWrite, prevWrite>>

\* The 1-second timer of toggleCamera fires: runHandpose up to its first
\* await, or through detect when the model is already loaded.
TimerFire(ready) ==
    /\ timers > 0
    /\ timers' = timers - 1
    /\ IF ~ modelRef
       THEN /\ loading' = loading + 1
            /\ UNCHANGED <<requestRef, frameSeq, orphanRafs, estimating>>
       ELSE /\ loading' = loading
            /\ DetectStart(ready, requestRef, orphanRafs)
    /\ event' = [op |-> "runHandpose", emit |-> "none"]
    /\ UNCHANGED <<sceneVars, musicVars, appVars, photoVars, showCamera, modelRef, debugRatio,
                   lastWrite, prevWrite>>

\* tf.ready() and handpose.load() resolve: lines 130-132, then detect.
LoadDone(ready) ==
    /\ loading > 0
    /\ loading' = loading - 1
    /\ modelRef' = TRUE
    /\ DetectStart(ready, requestRef, orphanRafs)
    /\ event' = [op |-> "loadDone", emit |-> "none"]
    /\ UNCHANGED <<sceneVars, musicVars, appVars, photoVars, showCamera, debugRatio, timers,
                   lastWrite, prevWrite>>

\* tf.ready() or handpose.load() rejects: lines 133-136.
LoadFail ==
    /\ loading > 0
    /\ loading' = loading - 1
    /\ event' = [op |-> "loadFail", emit |-> "none"]
    /\ UNCHANGED <<sceneVars, musicVars, appVars, photoVars, showCamera, modelRef, debugRatio,
                   requestRef, frameSeq, orphanRafs, estimating, timers,
                   lastWrite, prevWrite>>

\* The animation frame whose id requestRef holds runs detect.
FrameFire(ready) ==
    /\ requestRef = "pending"
    /\ DetectStart(ready, "stale", orphanRafs)
    /\ event' = [op |-> IF ready THEN "detectEstimate" ELSE "detectNotReady",
                 emit |-> "none"]
    /\ UNCHANGED <<sceneVars, musicVars, appVars, photoVars, showCamera, modelRef, debugRatio,
                   timers, loading, lastWrite, prevWrite>>

\* An animation frame of another detect chain runs detect.
OrphanFrameFire(ready) ==
    /\ orphanRafs > 0
    /\ DetectStart(ready, requestRef, orphanRafs - 1)
    /\ event' = [op |-> IF ready THEN "detectEstimate" ELSE "detectNotReady",
                 emit |-> "none"]
    /\ UNCHANGED <<sceneVars, musicVars, appVars, photoVars, showCamera, modelRef, debugRatio,
                   timers, loading, lastWrite, prevWrite>>

\* net.estimateHands resolves with hand: lines 158-196.
EstimateResolve(hand) ==
    LET calls == DetectCalls(hand)
    IN  /\ estimating > 0
        /\ estimating' = estimating - 1
        /\ IF Len(hand) > 0
           THEN /\ mousePos' = handleMouseMove(WristEvent(hand[1]))
                /\ debugRatio' = Ratio(hand[1])
           ELSE UNCHANGED <<mousePos, debugRatio>>
        /\ IF calls # << >>
           THEN /\ treeState' = handleInteraction(calls[1])
                /\ lastWrite' = WriteOf("gesture", calls[1])
                /\ prevWrite' = lastWrite
                /\ event' = [op |-> IF Len(hand) > 0 THEN "detectHand"
                                                      ELSE "detectNoHand",
                             emit |-> WriteOf("gesture", calls[1]).val]
           ELSE /\ UNCHANGED <<treeState, lastWrite, prevWrite>>
                /\ event' = [op |-> IF Len(hand) > 0 THEN "detectHand"
                                                      ELSE "detectNoHand",
                             emit |-> "none"]
        /\ ScheduleFrame(requestRef, orphanRafs)
        /\ UNCHANGED <<sceneVars, musicVars, photoVars, showCamera, modelRef, timers, loading>>

\* net.estimateHands rejects: detect's promise rejects at line 156 and
\* nothing after it runs.
EstimateReject ==
    /\ estimating > 0
    /\ estimating' = estimating - 1
    /\ event' = [op |-> "detectThrow", emit |-> "none"]
    /\ UNCHANGED <<sceneVars, musicVars, appVars, photoVars, showCamera, modelRef, debugRatio,
                   requestRef, frameSeq, orphanRafs, timers, loading,
                   lastWrite, prevWrite>>

\* onMouseDown / onTouchStart (TRUE), onMouseUp / onTouchEnd (FALSE).
ManualInteract(isInteracting) ==
    /\ treeState' = handleInteraction(isInteracting)
    /\ lastWrite' = WriteOf("manual", isInteracting)
    /\ prevWrite' = lastWrite
    /\ event' = [op |-> "manual", emit |-> WriteOf("manual", isInteracting).val]
    /\ UNCHANGED <<sceneVars, musicVars, mousePos, photoVars, camVars>>

\* A real mousemove event of the window.
PointerEvents == { <<RInt(0), RInt(0)>>, <<RInt(innerWidth), RInt(innerHeight)>> }
MouseMove(e) ==
    /\ mousePos' = handleMouseMove(e)
    /\ event' = [op |-> "mouseMove", emit |-> "none"]
    /\ UNCHANGED <<sceneVars, musicVars, treeState, photoVars, camVars, lastWrite, prevWrite>>


(* ---------------------- Polaroid (TreeSystem.tsx) ---------------------- *)

\* CONFIG of constants.ts.
TREE_HEIGHT == 11
TREE_RADIUS == 4
CHAOS_RADIUS == 35
\* Line 342: the angle step 2.39996 in units of 0.00001 rad.
GoldenAngle == 239996

\* Lines 324-326.
minY == RAdd(FDiv(RInt(-TREE_HEIGHT), RInt(2)), Rat(3, 2))
maxY == RSub(FDiv(RInt(TREE_HEIGHT), RInt(2)), RInt(2))
rangeY == RSub(maxY, minY)

\* The ratio taken over totalCount instead of totalCount - 1.
PolaroidYOverCount(index, totalCount) ==
    IF totalCount <= 1
    THEN FDiv(RAdd(minY, maxY), RInt(2))
    ELSE RAdd(minY, RMul(FDiv(RInt(index), RInt(totalCount)), rangeY))

\* Lines 328-334: the height of frame index among totalCount frames.
PolaroidY(index, totalCount) ==
    IF totalCount <= 1
    THEN FDiv(RAdd(minY, maxY), RInt(2))
    ELSE RAdd(minY, RMul(FDiv(RInt(index), RInt(totalCount - 1)), rangeY))

\* Lines 336-340: the distance from the axis at height y.
PolaroidR(y) ==
    LET h == RInt(TREE_HEIGHT)
        coneProgress == FDiv(RAdd(y, FDiv(h, RInt(2))), h)
        coneRadius == RMul(RSub(RInt(1), coneProgress), RInt(TREE_RADIUS))
    IN  RAdd(coneRadius, Rat(3, 2))

\* The layout of a Polaroid that is handed index 0 whatever its position.
targetPosFirstSlot(index, totalCount) ==
    LET y == PolaroidY(0, totalCount)
    IN  [y |-> y, r |-> PolaroidR(y), angle |-> 0]

\* The layout with the height of every frame fixed by its index alone.
targetPosFixedStep(index, totalCount) ==
    LET y == PolaroidY(index, index + 1)
    IN  [y |-> y, r |-> PolaroidR(y), angle |-> index * GoldenAngle]

\* Lines 342-344: Vector3(cos(angle) * r, y, sin(angle) * r), kept in
\* cylindrical coordinates: r > 0 always, and two multiples of 2.39996 never
\* differ by a multiple of 2 pi, so two such vectors are equal exactly when
\* their y, r and angle are.
targetPos(index, totalCount) ==
    LET y == PolaroidY(index, totalCount)
    IN  [y |-> y, r |-> PolaroidR(y), angle |-> index * GoldenAngle]

\* Line 344: Math.cos and Math.sin have period 2 pi, which lies strictly
\* between these two numbers of 0.00001 rad.
TwoPiLo == 628318
TwoPiHi == 628319

\* Line 344: two targets are the same Vector3 exactly when they have the same
\* height and distance from the axis and their angles differ by a whole
\* number of turns (r > 0 always).
SameVector3(p, q) ==
    LET d == Abs(p.angle - q.angle)
    IN  /\ p.y = q.y
        /\ p.r = q.r
        /\ \E k \in 0..(d \div TwoPiLo) : k * TwoPiLo <= d /\ d <= k * TwoPiHi

\* Lines 351-355: lookAt(0, y, 0) from the target, then rotateY(pi): the
\* front face points along the outward radius at the target's azimuth.
targetRotationQ(target) ==
    [facing |-> "outward", azimuth |-> target.angle]

\* Line 357: the points getRandomSpherePoint(CHAOS_RADIUS * 0.8) can return,
\* two of them (integer coordinates, inside the sphere of radius 28).
ChaosPoints ==
    { p \in { <<10, 0, 0>>, <<0, -20, 5>> } :
        5 * 5 * (p[1] * p[1] + p[2] * p[2] + p[3] * p[3])
            < (4 * CHAOS_RADIUS) * (4 * CHAOS_RADIUS) }

\* Lines 320-360: what the useMemo callback returns.
PolaroidLayout(index, totalCount, chaos) ==
    LET target == targetPos(index, totalCount)
    IN  [targetPos |-> target,
         chaosPos |-> chaos,
         targetRotationQ |-> targetRotationQ(target)]

\* useMemo with the dependency list [index] only.
PolaroidMemoByIndex(prev, index, totalCount, chaos) ==
    IF prev.deps[1] = index
    THEN prev
    ELSE [prev EXCEPT !.deps = <<index, totalCount>>,
                      !.memo = PolaroidLayout(index, totalCount, chaos)]

\* Lines 320 and 360: useMemo(..., [index, totalCount]) of a mounted Polaroid
\* whose last render left the cell prev.  The texture and the mesh (meshRef)
\* belong to the mounted component and stay.
PolaroidMemo(prev, index, totalCount, chaos) ==
    IF prev.deps = <<index, totalCount>>
    THEN prev
    ELSE [prev EXCEPT !.deps = <<index, totalCount>>,
                      !.memo = PolaroidLayout(index, totalCount, chaos)]

\* The first render of a Polaroid: lines 317-360, and the <group> of line 382
\* at its default position (0, 0, 0) and orientation.  A position is kept as
\* the lerp steps taken from the origin so far and an orientation as the
\* slerp and tumble steps taken from the identity: the coordinates of a
\* target involve Math.cos and Math.sin.
PolaroidMount(index, totalCount, chaos) ==
    [deps |-> <<index, totalCount>>,
     memo |-> PolaroidLayout(index, totalCount, chaos),
     texture |-> "loading",
     position |-> << >>,
     quaternion |-> << >>]

\* Lines 432-440 of TreeSystem: photos.map renders one Polaroid per photo with
\* index i and totalCount photos.length.  The list only grows at its end, so
\* the reconciler pairs the Polaroid at each old position with the same
\* position of the new list.
RenderPolaroids(old, newPhotos, chaos) ==
    [i \in 1..Len(newPhotos) |->
        IF i <= Len(old)
        THEN PolaroidMemo(old[i], i - 1, Len(newPhotos), chaos[i])
        ELSE PolaroidMount(i - 1, Len(newPhotos), chaos[i])]

\* Line 29: the ids Math.random().toString(36).substr(2, 9) can produce, two
\* of them; nothing keeps two draws apart.
IdPool == {"4fzyo82mv", "i"}

\* handlePhotoUpload (part_000 lines 27-34) for a FileList of Len(ids) files
\* whose random ids come out as ids, followed by the render it causes.  The
\* object URL of a file is unique; it is modelled by the file's rank among all
\* files uploaded.
handlePhotoUpload(ids, chaos) ==
    LET newPhotos == [j \in 1..Len(ids) |->
                         [id |-> ids[j], url |-> Len(photos) + j, aspectRatio |-> 1]]
    IN  /\ Len(ids) > 0
        /\ Len(photos) + Len(ids) <= MaxPhotos
        /\ photos' = photos \o newPhotos
        /\ polaroids' = RenderPolaroids(polaroids, photos', chaos)
        /\ event' = [op |-> "upload", emit |-> "none"]
        /\ UNCHANGED <<sceneVars, musicVars, appVars, camVars, lastWrite, prevWrite>>

\* Line 317: the TextureLoader request of Polaroid i settles.
TextureSettle(i, ok) ==
    /\ i \in 1..Len(polaroids)
    /\ polaroids[i].texture = "loading"
    /\ polaroids' = [polaroids EXCEPT ![i].texture = IF ok THEN "loaded" ELSE "error"]
    /\ event' = [op |-> "texture", emit |-> "none"]
    /\ UNCHANGED <<sceneVars, musicVars, appVars, photos, camVars, lastWrite, prevWrite>>

(* ------------------ render frames (TreeSystem.tsx) --------------------- *)

\* CONFIG of constants.ts.
NEEDLE_COUNT == 12000
ORNAMENT_COUNT == 3000

\* The smoothing constants: 0.05 (line 180), 0.04 (line 278), 0.03 (line 368)
\* and 0.05 (lines 78, 373 and 424), as fractions.
RibbonAlpha == <<1, 20>>
DustAlpha == <<1, 25>>
PolaroidAlpha == <<3, 100>>
SlerpAlpha == <<1, 20>>

\* The elements of a Float32Array are IEEE single-precision numbers.  The
\* model follows every coordinate of a particle inside one binade, the one of
\* its target on that axis, in units of the last place: the coordinate c
\* stands for the number of mantissa 2^23 + c there.  The chaos coordinate of
\* a particle the model follows was drawn in that binade too.

\* The integer nearest to n / d (n >= 0, d > 0), the even one of two equally
\* near: the rounding of a store into a Float32Array.
RoundHalfEven(n, d) ==
    LET q == n \div d
        r == n % d
    IN  IF 2 * r < d THEN q
        ELSE IF 2 * r > d THEN q + 1
        ELSE IF q % 2 = 0 THEN q ELSE q + 1

\* The update with the product rounded towards zero before it is added.
LerpStoreTruncated(current, t, alpha) ==
    IF t >= current
    THEN current + ((t - current) * alpha[1]) \div alpha[2]
    ELSE current - ((current - t) * alpha[1]) \div alpha[2]

\* Lines 180-182 and 278-280: currentPositions[i] += (t - currentPositions[i])
\* * alpha.  Inside one binade the difference is exact in double precision,
\* the product and the sum are within 2^-52 of their exact values (exact when
\* the sum lies half-way between two single-precision numbers), so the element
\* stored is the single-precision number nearest to the exact result.
LerpStore(current, t, alpha) ==
    RoundHalfEven(current * alpha[2] + (t - current) * alpha[1], alpha[2])

\* The draws of Math.random() for the particles the model follows: the target
\* (lines 116-140, 225-239), the chaos point (lines 143-146, 242-245), the
\* colour (lines 154, 253-254) and the size (lines 160, 259) of each.
RibbonDraws ==
    << [target |-> <<40, 40, 40>>, chaos |-> <<40, 35, 30>>,
        color |-> "GOLD_HIGHLIGHT", size |-> <<1, 2>>],
       [target |-> <<1, 20, 39>>, chaos |-> <<401, 21, 50>>,
        color |-> "GOLD_DARK", size |-> <<7, 10>>],
       [target |-> <<7, 7, 7>>, chaos |-> <<7, 7, 30>>,
        color |-> "GOLD_DARK", size |-> <<3, 10>>] >>
DustDraws ==
    << [target |-> <<50, 12, 0>>, chaos |-> <<0, 0, 13>>,
        color |-> "EMERALD_DEEP", size |-> <<1, 5>>],
       [target |-> <<0, 5, 5>>, chaos |-> <<500, 5, 4>>,
        color |-> "EMERALD_LIGHT", size |-> <<2, 5>>],
       [target |-> <<30, 3, 9>>, chaos |-> <<4, 30, 9>>,
        color |-> "EMERALD_DEEP", size |-> <<1, 10>>] >>

\* Lines 104-163 and 214-262: the arrays [pos, target, chaos, cols, sz] the
\* useMemo of a particle group returns, for the first MaxParticles of its
\* count particles; pos starts as a copy of chaos (lines 149-151, 248-250).
ParticleGroup(count, draws) ==
    LET n == IF count < MaxParticles THEN count ELSE MaxParticles
        d(i) == draws[((i - 1) % Len(draws)) + 1]
    IN  [positions |-> [i \in 1..n |-> d(i).chaos],
         targetPositions |-> [i \in 1..n |-> d(i).target],
         chaosPositions |-> [i \in 1..n |-> d(i).chaos],
         colors |-> [i \in 1..n |-> d(i).color],
         sizes |-> [i \in 1..n |-> d(i).size]]

\* The callback with the two targets exchanged.
ParticleFrameSwapped(group, state, alpha) ==
    LET isFormed == state = FORMED
        t(i) == IF isFormed THEN group.chaosPositions[i]
                            ELSE group.targetPositions[i]
    IN  [group EXCEPT !.positions =
            [i \in 1..Len(group.positions) |->
                [c \in 1..3 |-> LerpStore(group.positions[i][c], t(i)[c], alpha)]]]

\* The callback of a group whose chaos array is written along with the
\* current positions.
ParticleFrameDrift(group, state, alpha) ==
    LET isFormed == state = FORMED
        t(i) == IF isFormed THEN group.targetPositions[i]
                            ELSE group.chaosPositions[i]
        pos == [i \in 1..Len(group.positions) |->
                  [c \in 1..3 |-> LerpStore(group.positions[i][c], t(i)[c], alpha)]]
    IN  [group EXCEPT !.positions = pos, !.chaosPositions = pos]

\* Lines 165-185 and 264-283: the arrays after the useFrame callback of a
\* particle group rendered with state, whose smoothing constant is alpha.
ParticleFrame(group, state, alpha) ==
    LET isFormed == state = FORMED
        t(i) == IF isFormed THEN group.targetPositions[i]
                            ELSE group.chaosPositions[i]
    IN  [group EXCEPT !.positions =
            [i \in 1..Len(group.positions) |->
                [c \in 1..3 |-> LerpStore(group.positions[i][c], t(i)[c], alpha)]]]

\* Lines 362-379: a Polaroid after its useFrame callback, rendered with state:
\* position.lerp(isFormed ? targetPos : chaosPos, 0.03), then
\* quaternion.slerp(targetRotationQ, 0.05) when formed and a turn of 0.02 about
\* x and z otherwise.
PolaroidFrame(cell, state) ==
    LET isFormed == state = FORMED
    IN  [cell EXCEPT
            !.position = Append(@, [isFormed |-> isFormed,
                                    targetPos |-> cell.memo.targetPos,
                                    chaosPos |-> cell.memo.chaosPos,
                                    alpha |-> PolaroidAlpha]),
            !.quaternion = Append(@, [isFormed |-> isFormed,
                                      targetRotationQ |-> cell.memo.targetRotationQ,
                                      alpha |-> SlerpAlpha])]

\* One render frame: the useFrame callbacks of TopStar (lines 69-79, the
\* scale drawn to 1 or 0.1), GoldRibbons, GreenDust, every Polaroid and
\* TreeSystem (lines 420-425, the yaw drawn to the pointer's x).  The scale
\* and the yaw are kept as the steps taken, like a Polaroid's position.
useFrame ==
    /\ frame < MaxFrames
    /\ frame' = frame + 1
    /\ starScale' = Append(starScale, treeState = FORMED)
    /\ ribbon' = ParticleFrame(ribbon, treeState, RibbonAlpha)
    /\ dust' = ParticleFrame(dust, treeState, DustAlpha)
    /\ polaroids' = [i \in 1..Len(polaroids) |->
                        PolaroidFrame(polaroids[i], treeState)]
    /\ rotationY' = Append(rotationY, mousePos[1])
    /\ event' = [op |-> "useFrame", emit |-> "none"]
    /\ UNCHANGED <<appVars, photos, camVars, musicVars, lastWrite, prevWrite>>

(* -------------------------- music (part_001) --------------------------- *)

\* toggleMusic (lines 44-88), behind a button disabled while isLoadingMusic.
toggleMusic ==
    /\ ~ isLoadingMusic
    /\ IF ~ audioRef
       THEN /\ Len(plays) < MaxPlays
            /\ isLoadingMusic' = TRUE
            /\ audioRef' = TRUE
            /\ plays' = Append(plays, "first")
            /\ UNCHANGED isPlaying
       ELSE IF isPlaying
            THEN /\ isPlaying' = FALSE
                 /\ UNCHANGED <<audioRef, isLoadingMusic, plays>>
            ELSE /\ Len(plays) < MaxPlays
                 /\ plays' = Append(plays, "resume")
                 /\ UNCHANGED <<audioRef, isPlaying, isLoadingMusic>>
    /\ event' = [op |-> "toggleMusic", emit |-> "none"]
    /\ UNCHANGED <<appVars, photoVars, camVars, sceneVars, lastWrite, prevWrite>>

\* handleMusicSelect (lines 91-116) with a file chosen.
handleMusicSelect ==
    /\ Len(plays) < MaxPlays
    /\ audioRef' = TRUE
    /\ isLoadingMusic' = TRUE
    /\ plays' = Append(plays, "select")
    /\ event' = [op |-> "handleMusicSelect", emit |-> "none"]
    /\ UNCHANGED <<appVars, photoVars, camVars, sceneVars, isPlaying,
                   lastWrite, prevWrite>>

\* The promise of the i-th pending audio.play() settles: the then and catch
\* callbacks of lines 62-74, 85-86 and 107-114.
PlaySettle(i, ok) ==
    /\ i \in 1..Len(plays)
    /\ plays' = [j \in 1..(Len(plays) - 1) |->
                    IF j < i THEN plays[j] ELSE plays[j + 1]]
    /\ isPlaying' = IF ok THEN TRUE
                    ELSE IF plays[i] = "first" THEN FALSE ELSE isPlaying
    /\ isLoadingMusic' = IF plays[i] = "resume" THEN isLoadingMusic ELSE FALSE
    /\ audioRef' = IF ~ ok /\ plays[i] = "first" THEN FALSE ELSE audioRef
    /\ event' = [op |-> "playSettle", emit |-> "none"]
    /\ UNCHANGED <<appVars, photoVars, camVars, sceneVars, lastWrite, prevWrite>>

(* --------------------------- specifications ---------------------------- *)

Init ==
    /\ treeState = FORMED
    /\ mousePos = <<Rat(1, 2), Rat(1, 2)>>
    /\ photos = << >>
    /\ polaroids = << >>
    /\ showCamera = FALSE
    /\ modelRef = FALSE
    /\ debugRatio = RInt(0)
    /\ requestRef = "zero"
    /\ frameSeq = 0
    /\ orphanRafs = 0
    /\ estimating = 0
    /\ timers = 0
    /\ loading = 0
    /\ ribbon = ParticleGroup(ORNAMENT_COUNT, RibbonDraws)
    /\ dust = ParticleGroup(NEEDLE_COUNT, DustDraws)
    /\ starScale = << >>
    /\ rotationY = << >>
    /\ frame = 0
    /\ audioRef = FALSE
    /\ isPlaying = FALSE
    /\ isLoadingMusic = FALSE
    /\ plays = << >>
    /\ event = NoEvent
    /\ lastWrite = NoWrite
    /\ prevWrite = NoWrite

Seqs(S, lo, hi) == UNION { [1..n -> S] : n \in lo..hi }

\* The gesture path, manual input and the pointer.
NextGesture ==
    \/ toggleCamera
    \/ \E ready \in VideoReadyValues : TimerFire(ready)
    \/ \E ready \in VideoReadyValues : LoadDone(ready)
    \/ LoadFail
    \/ \E ready \in VideoReadyValues : FrameFire(ready)
    \/ \E ready \in VideoReadyValues : OrphanFrameFire(ready)
    \/ \E hand \in EstimateResults : EstimateResolve(hand)
    \/ EstimateReject
    \/ \E b \in BOOLEAN : ManualInteract(b)
    \/ \E e \in PointerEvents : MouseMove(e)

\* Photo uploads, the layout of their frames and their image loads.
NextLayout ==
    \/ \E ids \in Seqs(IdPool, 1, MaxPhotos - Len(photos)) :
         \E chaos \in [1..(Len(photos) + Len(ids)) -> ChaosPoints] :
            handlePhotoUpload(ids, chaos)
    \/ \E i \in 1..Len(polaroids), ok \in BOOLEAN : TextureSettle(i, ok)

\* The render loop and the music controls.
NextScene ==
    \/ useFrame
    \/ toggleMusic
    \/ handleMusicSelect
    \/ \E i \in 1..Len(plays), ok \in BOOLEAN : PlaySettle(i, ok)

Next == NextGesture \/ NextLayout \/ NextScene

Spec == Init /\ [][Next]_vars
SpecGesture == Init /\ [][NextGesture]_vars
SpecLayout == Init /\ [][NextLayout]_vars

\* The animation: render frames, the manual control and uploads of one photo
\* whose id comes out different from the ids drawn before.
NextAnimation ==
    \/ useFrame
    \/ \E b \in BOOLEAN : ManualInteract(b)
    \/ \E id \in IdPool \ { photos[j].id : j \in 1..Len(photos) } :
         \E chaos \in [1..(Len(photos) + 1) -> ChaosPoints] :
            handlePhotoUpload(<<id>>, chaos)

SpecAnimation == Init /\ [][NextAnimation]_vars

\* Every kind of event of the application.  A behaviour drives one of the
\* camera, the scene (frames and a photo) and the music player, next to the
\* manual control and the pointer; the camera runs one detection chain and
\* also reports degenerate hands and hands partly outside the picture.
CameraIdle == ~ showCamera /\ ~ modelRef /\ Chains = 0
SceneIdle == frame = 0 /\ photos = << >>
MusicIdle == ~ audioRef /\ ~ isPlaying /\ ~ isLoadingMusic /\ plays = << >>
NextControl ==
    \/ \E b \in BOOLEAN : ManualInteract(b)
    \/ \E e \in PointerEvents : MouseMove(e)
    \/ /\ SceneIdle /\ MusicIdle
       /\ \/ (showCamera \/ Chains = 0) /\ toggleCamera
          \/ \E ready \in VideoReadyValues : TimerFire(ready)
          \/ \E ready \in VideoReadyValues : LoadDone(ready)
          \/ LoadFail
          \/ \E ready \in VideoReadyValues : FrameFire(ready)
          \/ \E hand \in {NoHand} \cup PlainHands \cup InvalidHands
                                  \cup OffFrameHands : EstimateResolve(hand)
          \/ EstimateReject
    \/ /\ CameraIdle /\ MusicIdle
       /\ \/ useFrame
          \/ /\ photos = << >>
             /\ \E id \in IdPool, chaos \in [1..1 -> ChaosPoints] :
                   handlePhotoUpload(<<id>>, chaos)
    \/ /\ CameraIdle /\ SceneIdle
       /\ \/ toggleMusic
          \/ handleMusicSelect
          \/ \E i \in 1..Len(plays), ok \in BOOLEAN : PlaySettle(i, ok)

SpecControl == Init /\ [][NextControl]_vars


\* The detection loop alone: the camera toggle, the timer, the model load,
\* the animation frames and estimations that find no hand or fail.
NextLoop ==
    \/ toggleCamera
    \/ \E ready \in VideoReadyValues : TimerFire(ready)
    \/ \E ready \in VideoReadyValues : LoadDone(ready)
    \/ LoadFail
    \/ \E ready \in VideoReadyValues : FrameFire(ready)
    \/ \E ready \in VideoReadyValues : OrphanFrameFire(ready)
    \/ EstimateResolve(NoHand)
    \/ EstimateReject

\* What the browser's event loop guarantees: a pending timer fires, a pending
\* promise settles and a requested animation frame runs.  Nothing obliges the
\* user to act.
TimerStep == \E ready \in VideoReadyValues : TimerFire(ready)
LoadStep == LoadFail \/ \E ready \in VideoReadyValues : LoadDone(ready)
FrameStep == \E ready \in VideoReadyValues : FrameFire(ready)
OrphanFrameStep == \E ready \in VideoReadyValues : OrphanFrameFire(ready)
EstimateStep == EstimateResolve(NoHand) \/ EstimateReject
FairLoop ==
    /\ Init /\ [][NextLoop]_vars
    /\ WF_vars(TimerStep) /\ WF_vars(LoadStep)
    /\ WF_vars(FrameStep) /\ WF_vars(OrphanFrameStep)
    /\ WF_vars(EstimateStep)

(* ------------------------------- claims -------------------------------- *)

C2_InFlightDiscarded ==
    [][(~ showCamera /\ event'.op \in {"detectHand", "detectNoHand"})
          => (treeState' = treeState /\ mousePos' = mousePos)]_vars

\* No detect invocation is pending or running.
DetectIdle == requestRef # "pending" /\ orphanRafs = 0 /\ estimating = 0

\* C3: once gesture input stays disabled, from some point on no detect
\* invocation is pending or runs.
C3_LoopStops == <>[](~ showCamera) => <>[]DetectIdle

\* C4: ControlState equals the value of the most recent write, manual or
\* gesture, whatever was written before.
C4_LastWriterWins ==
    IF lastWrite = NoWrite THEN treeState = "FORMED"
    ELSE treeState = lastWrite.val

\* A gesture's FORMED overwrites a manual press's CHAOS.
C4_Witness ==
    /\ prevWrite = [by |-> "manual", val |-> "CHAOS"]
    /\ lastWrite = [by |-> "gesture", val |-> "FORMED"]
    /\ treeState = "FORMED"

\* C5: a sample without a hand, or taken while the video is not ready, leaves
\* ControlState and the pointer position unchanged and requests the next
\* animation frame.
C5_NoHandSkipped ==
    [][event'.op \in {"detectNoHand", "detectNotReady"}
          => /\ treeState' = treeState
             /\ mousePos' = mousePos
             /\ requestRef' = "pending"]_vars

\* A no-hand sample after a gesture set CHAOS and moved the pointer.
C5_Witness ==
    /\ event.op = "detectNoHand"
    /\ treeState = "CHAOS"
    /\ lastWrite.by = "gesture"
    /\ mousePos # <<Rat(1, 2), Rat(1, 2)>>
    /\ requestRef = "pending"

\* C6: a failed model load or a failed estimation leaves ControlState
\* unchanged, and after a failed estimation the loop requests its next
\* animation frame as it does after a no-hand sample.
C6_FailureIsNoHand ==
    [][/\ event'.op \in {"loadFail", "detectThrow"} => treeState' = treeState
       /\ event'.op = "detectThrow" => requestRef' = "pending"]_vars

\* C7 as stated: an upload changes the targetPos of every existing frame.
C7_EveryIndexMoves ==
    [][event'.op = "upload"
          => \A i \in 1..Len(polaroids) :
                polaroids'[i].memo.targetPos # polaroids[i].memo.targetPos]_vars

\* C7 amended: an upload changes the targetPos of every existing frame except
\* that of index 0 when there were already two or more frames, which stays.
C7_EveryIndexButFirstMoves ==
    [][event'.op = "upload"
          => \A i \in 1..Len(polaroids) :
                (polaroids'[i].memo.targetPos = polaroids[i].memo.targetPos)
                    <=> (i = 1 /\ Len(polaroids) >= 2)]_vars

\* Three frames laid out by a second upload that added the third: the layout
\* of index 0 and of index 1 has been recomputed for totalCount 3.
C7_Witness ==
    /\ event.op = "upload"
    /\ Len(polaroids) = 3
    /\ polaroids[3].texture = "loading"
    /\ polaroids[2].texture = "loaded"
    /\ polaroids[2].memo.targetPos.y = <<-1, 4>>
    /\ polaroids[1].memo.targetPos.y = <<-4, 1>>

\* C8: the stored targetPos and targetOrientation of every frame are the
\* layout of (index, totalCount) and of nothing else.
C8_LayoutPure ==
    \A i \in 1..Len(polaroids) :
        /\ polaroids[i].memo.targetPos = targetPos(i - 1, Len(photos))
        /\ polaroids[i].memo.targetRotationQ
              = targetRotationQ(targetPos(i - 1, Len(photos)))

\* Three frames, two of them with the same id, with different image load
\* outcomes and different chaos positions.
C8_Witness ==
    /\ Len(polaroids) = 3
    /\ photos[1].id = photos[2].id
    /\ polaroids[1].texture = "error"
    /\ polaroids[2].texture = "loaded"
    /\ polaroids[3].texture = "loading"
    /\ polaroids[1].memo.chaosPos # polaroids[2].memo.chaosPos

\* C9: photo ids are pairwise different, every frame's index is its position
\* in upload order, photos are only appended and every frame's totalCount is
\* the number of photos.
C9_UniqueIdsInOrder ==
    /\ \A i, j \in 1..Len(photos) : i # j => photos[i].id # photos[j].id
    /\ Len(polaroids) = Len(photos)
    /\ \A i \in 1..Len(photos) :
          /\ photos[i].url = i
          /\ polaroids[i].deps = <<i - 1, Len(photos)>>

\* C10: a single frame sits at the band's midpoint with angle 0; with two or
\* more frames y = minY + index / (totalCount - 1) * (maxY - minY), inside
\* [-h/2 + 1.5, h/2 - 2.0] and strictly increasing in index.
C10_LinearHeight ==
    LET n == Len(polaroids)
        y(i) == polaroids[i].memo.targetPos.y
        lo == <<3 - TREE_HEIGHT, 2>>
        hi == <<TREE_HEIGHT - 4, 2>>
    IN  /\ n = 1 => /\ 4 * y(1)[1] = (lo[1] + hi[1]) * y(1)[2]
                    /\ polaroids[1].memo.targetPos.angle = 0
        /\ n >= 2 =>
              \A i \in 1..n :
                 /\ 2 * (n - 1) * y(i)[1]
                       = (lo[1] * (n - 1) + (i - 1) * (hi[1] - lo[1])) * y(i)[2]
                 /\ y(i)[2] > 0
                 /\ lo[1] * y(i)[2] <= 2 * y(i)[1]
                 /\ 2 * y(i)[1] <= hi[1] * y(i)[2]
                 /\ \A j \in 1..n : i < j => y(i)[1] * y(j)[2] < y(j)[1] * y(i)[2]

\* Three frames at the bottom, the middle and the top of the band.
C10_Witness ==
    /\ Len(polaroids) = 3
    /\ polaroids[1].memo.targetPos.y = minY
    /\ polaroids[2].memo.targetPos.y = FDiv(RAdd(minY, maxY), RInt(2))
    /\ polaroids[3].memo.targetPos.y = maxY
    /\ polaroids[3].texture = "loaded"

\* C11: no two frames of one layout coincide: any two frames of the current
\* layout differ in height, in distance from the axis or in angle modulo a
\* full turn.
C11_NoCoincidence ==
    \A i, j \in 1..Len(polaroids) :
        i # j => ~ SameVector3(polaroids[i].memo.targetPos,
                              polaroids[j].memo.targetPos)

\* A layout of three frames at one, two and no golden angles, the first and
\* the last of them carrying the same id.
C11_Witness ==
    /\ Len(polaroids) = 3
    /\ polaroids[2].memo.targetPos.angle = GoldenAngle
    /\ polaroids[3].memo.targetPos.angle = 2 * GoldenAngle
    /\ polaroids[1].memo.targetPos.angle = 0
    /\ photos[1].id = photos[3].id
    /\ photos[1].id # photos[2].id

\* C12: ControlState is always FORMED or CHAOS and starts as FORMED; a step
\* changes it only when it is a manual interaction event or a gesture sample
\* that emits, and then to the value emitted; render frames, pointer moves,
\* photo uploads, camera toggles and music actions leave it unchanged.
C12_ControlStateOwners ==
    /\ treeState = FORMED
    /\ [](treeState \in {FORMED, CHAOS})
    /\ [][treeState' # treeState
            => /\ event'.op \in {"manual", "detectHand"}
               /\ event'.emit = treeState']_vars
    /\ [][event'.op \in {"useFrame", "mouseMove", "upload", "toggleCamera",
                         "toggleMusic", "handleMusicSelect", "playSettle"}
            => treeState' = treeState]_vars

\* The tree is held in CHAOS by the manual control while the pointer has
\* moved, a photo has been uploaded and frames have been rendered.
C12_Witness ==
    /\ treeState = CHAOS
    /\ lastWrite = [by |-> "manual", val |-> "CHAOS"]
    /\ event.op = "useFrame"
    /\ frame = MaxFrames
    /\ Len(photos) = 1
    /\ mousePos = <<RInt(1), RInt(1)>>

\* C13 as stated: in a render frame every particle that is not at the target
\* of the frame's ControlState gets strictly nearer to it (no coordinate gets
\* farther and one gets nearer), passes it on no axis and does not reach it.
C13_StrictlyNearer ==
    [][event'.op = "useFrame"
        => \A g \in {<<ribbon, ribbon'>>, <<dust, dust'>>} :
             \A i \in 1..Len(g[1].positions) :
                LET t == IF treeState = FORMED THEN g[1].targetPositions[i]
                                               ELSE g[1].chaosPositions[i]
                    p == g[1].positions[i]
                    q == g[2].positions[i]
                IN  p # t
                    => /\ \A c \in 1..3 : \/ (p[c] <= q[c] /\ q[c] <= t[c])
                                            \/ (t[c] <= q[c] /\ q[c] <= p[c])
                       /\ q # t
                       /\ \E c \in 1..3 :
                             Abs(t[c] - q[c]) < Abs(t[c] - p[c])]_vars

\* C13 as amended: in a render frame every coordinate of every particle stays
\* between its old value and the target of the frame's ControlState, does not
\* reach the target unless it was there, and is stored back unchanged exactly
\* when alpha times its offset is less than half a unit in the last place, or
\* is half a unit and the coordinate's mantissa is even.
C13_NearerUntilRounding ==
    [][event'.op = "useFrame"
        => \A g \in {<<ribbon, ribbon', RibbonAlpha>>,
                      <<dust, dust', DustAlpha>>} :
             \A i \in 1..Len(g[1].positions), c \in 1..3 :
                LET t == IF treeState = FORMED THEN g[1].targetPositions[i][c]
                                               ELSE g[1].chaosPositions[i][c]
                    p == g[1].positions[i][c]
                    q == g[2].positions[i][c]
                    a == g[3]
                IN  /\ (p <= q /\ q <= t) \/ (t <= q /\ q <= p)
                    /\ p # t => q # t
                    /\ q = p <=> \/ 2 * a[1] * Abs(t - p) < a[2]
                                 \/ /\ 2 * a[1] * Abs(t - p) = a[2]
                                    /\ p % 2 = 0]_vars

\* A frame rendered as FORMED has left the first ribbon particle where it
\* was, 5 and 10 units in the last place from its target, and has moved the
\* second one.
C13_Witness ==
    /\ event.op = "useFrame"
    /\ treeState = FORMED
    /\ ribbon.positions[1] = <<40, 35, 30>>
    /\ ribbon.targetPositions[1] = <<40, 40, 40>>
    /\ ribbon.positions[2] # ribbon.chaosPositions[2]

\* C14: a sample with a hand whose knuckle lies on the wrist, so that the
\* ratio is not a finite number, calls onManualInteract with nothing and
\* leaves ControlState unchanged.
C14_DegenerateIgnored ==
    [][event'.op = "detectHand" /\ ~ IsFinite(debugRatio')
        => event'.emit = "none" /\ treeState' = treeState]_vars

\* C15: a render frame stores, for every coordinate of every particle, the
\* number nearest to pos + alpha * (t - pos), where t is targetPos when the
\* ControlState of the frame is FORMED and chaosPos when it is CHAOS and alpha
\* is 0.05 for the ribbon and 0.04 for the dust, and takes for every photo
\* frame one lerp step of 0.03 from its position towards the target selected
\* in the same way; no other step, a flip of ControlState included, changes
\* the position of a particle or of a photo frame.
C15_FrameStep ==
    [][IF event'.op = "useFrame"
       THEN /\ \A g \in {<<ribbon, ribbon', RibbonAlpha>>,
                          <<dust, dust', DustAlpha>>} :
                 \A i \in 1..Len(g[1].positions), c \in 1..3 :
                    LET t == IF treeState = FORMED
                             THEN g[1].targetPositions[i][c]
                             ELSE g[1].chaosPositions[i][c]
                        p == g[1].positions[i][c]
                        q == g[2].positions[i][c]
                        a == g[3]
                    IN  2 * Abs(a[2] * (q - p) - a[1] * (t - p)) <= a[2]
            /\ Len(polaroids') = Len(polaroids)
            /\ \A i \in 1..Len(polaroids) :
                 polaroids'[i].position =
                    Append(polaroids[i].position,
                           [isFormed |-> treeState = FORMED,
                            targetPos |-> polaroids[i].memo.targetPos,
                            chaosPos |-> polaroids[i].memo.chaosPos,
                            alpha |-> <<3, 100>>])
       ELSE /\ ribbon'.positions = ribbon.positions
            /\ dust'.positions = dust.positions
            /\ \A i \in 1..Len(polaroids) :
                 polaroids'[i].position = polaroids[i].position]_vars

\* A frame rendered as FORMED and then, after a flip, a frame rendered as
\* CHAOS: the second particle of each group has gone a twentieth (a
\* twenty-fifth) of the way to its target and then the same fraction of the
\* way back, and the photo frame has taken a step towards each target.
C15_Witness ==
    /\ event.op = "useFrame"
    /\ treeState = CHAOS
    /\ ribbon.positions[2] = <<382, 21, 49>>
    /\ dust.positions[2] = <<481, 5, 4>>
    /\ Len(polaroids) = 1
    /\ Len(polaroids[1].position) = 2
    /\ polaroids[1].position[1].isFormed
    /\ ~ polaroids[1].position[2].isFormed

\* C16: the current positions of a particle group start as a copy of its
\* chaos positions; the five arrays of a group always have one length; no
\* step changes the target positions, the chaos positions, the colours or the
\* sizes, and a render frame changes nothing of a group but its current
\* positions.
C16_ArraysFrozen ==
    /\ ribbon.positions = ribbon.chaosPositions
    /\ dust.positions = dust.chaosPositions
    /\ [](\A g \in {ribbon, dust} :
            /\ Len(g.targetPositions) = Len(g.positions)
            /\ Len(g.chaosPositions) = Len(g.positions)
            /\ Len(g.colors) = Len(g.positions)
            /\ Len(g.sizes) = Len(g.positions))
    /\ [][\A g \in {<<ribbon, ribbon'>>, <<dust, dust'>>} :
            /\ g[2].targetPositions = g[1].targetPositions
            /\ g[2].chaosPositions = g[1].chaosPositions
            /\ g[2].colors = g[1].colors
            /\ g[2].sizes = g[1].sizes
            /\ Len(g[2].positions) = Len(g[1].positions)]_vars

\* Frames have been rendered and have moved particles of both groups away
\* from their chaos positions.
C16_Witness ==
    /\ event.op = "useFrame"
    /\ frame = MaxFrames
    /\ ribbon.positions # ribbon.chaosPositions
    /\ dust.positions # dust.chaosPositions
    /\ Len(ribbon.positions) = MaxParticles

\* C17: both coordinates of the pointer position are always in [0, 1].
C17_PointerInUnitSquare ==
    \A c \in 1..2 : RLe(RInt(0), mousePos[c]) /\ RLe(mousePos[c], RInt(1))

\* C18: at most one chain of detect invocations is alive: the animation
\* frames that will call detect and the detect invocations awaiting
\* estimateHands are never more than one together.
C18_SingleLoop ==
    estimating + orphanRafs + (IF requestRef = "pending" THEN 1 ELSE 0) <= 1

\* C19: an upload leaves every photo frame that existed before it with its
\* chaosPos, its current position and its current orientation.
C19_UploadKeepsChaos ==
    [][event'.op = "upload"
        => \A i \in 1..Len(polaroids) :
             /\ polaroids'[i].memo.chaosPos = polaroids[i].memo.chaosPos
             /\ polaroids'[i].position = polaroids[i].position
             /\ polaroids'[i].quaternion = polaroids[i].quaternion]_vars

====
